---------------------------- MODULE Spec2Model ----------------------------
(***************************************************************************)
(* Incremental response ingestion of the HMDB chatbot front end:           *)
(*   - parseSSEStream (frontend/src/api.js, the parser sendChatMessage     *)
(*     uses) and parseSSEStream (frontend/src/utils.js, the variant with   *)
(*     blank-line splitting and duplicate suppression);                    *)
(*   - Chatbot.submitNewMessage / initializeChat and ChatMessages          *)
(*     (frontend/src/components/Chatbot.jsx).                              *)
(*                                                                         *)
(* Text is a sequence of one-character strings.  A value that JavaScript   *)
(* would hold as undefined or null is the one-element sequence Undefined   *)
(* or Null, which no text can equal (every element of a text is a single   *)
(* character).                                                             *)
(***************************************************************************)
EXTENDS Naturals, Sequences, FiniteSets, TLC

(***************************************************************************)
(* Strings                                                                 *)
(***************************************************************************)
Undefined ==
  <<"<undefined>">>

Null ==
  <<"<null>">>

\* The whitespace String.prototype.trim() removes (the part of it that the
\* inputs of this model contain).
TrimWs ==
  {" ", "\t", "\n", "\r"}

Drop(s, n) ==
  IF n >= Len(s) THEN <<>> ELSE SubSeq(s, n + 1, Len(s))

Front(s) ==
  SubSeq(s, 1, Len(s) - 1)

Last(s) ==
  s[Len(s)]

RECURSIVE TrimStart(_)
TrimStart(s) ==
  IF s # <<>> /\ Head(s) \in TrimWs THEN TrimStart(Tail(s)) ELSE s

RECURSIVE TrimEnd(_)
TrimEnd(s) ==
  IF s # <<>> /\ Last(s) \in TrimWs THEN TrimEnd(Front(s)) ELSE s

\* String.prototype.trim
Trim(s) ==
  TrimEnd(TrimStart(s))

\* String.prototype.startsWith
StartsWith(s, p) ==
  Len(s) >= Len(p) /\ SubSeq(s, 1, Len(p)) = p

\* String.prototype.split(sep) for a non-empty separator: the pieces between
\* the leftmost non-overlapping occurrences of sep; always at least one piece.
Matches(s, sep) ==
  {i \in 1..Len(s) : i + Len(sep) - 1 <= Len(s) /\ SubSeq(s, i, i + Len(sep) - 1) = sep}

RECURSIVE SplitFrom(_, _, _)
SplitFrom(s, sep, from) ==
  LET M == {i \in Matches(s, sep) : i >= from} IN
  IF M = {} THEN <<SubSeq(s, from, Len(s))>>
  ELSE LET i == CHOOSE m \in M : \A j \in M : m <= j
       IN  <<SubSeq(s, from, i - 1)>> \o SplitFrom(s, sep, i + Len(sep))

Split(s, sep) ==
  SplitFrom(s, sep, 1)

\* Array.prototype.join
RECURSIVE Join(_, _)
Join(parts, sep) ==
  IF parts = <<>> THEN <<>>
  ELSE IF Len(parts) = 1 THEN parts[1]
  ELSE parts[1] \o sep \o Join(Tail(parts), sep)

RECURSIVE Concat(_)
Concat(parts) ==
  IF parts = <<>> THEN <<>> ELSE Head(parts) \o Concat(Tail(parts))

NL ==
  <<"\n">>

BlankLine ==
  <<"\n", "\n">>

DataPrefix ==
  <<"d", "a", "t", "a", ":">>

(***************************************************************************)
(* TextDecoder (UTF-8, {stream: true}).  A byte is a one-character string  *)
(* for an ASCII byte, LeadByte for 0xC3 and ContByte for 0xA9; the pair    *)
(* decodes to EAcute (U+00E9).  A lead byte at the end of a chunk is kept  *)
(* by the decoder until the next call.                                     *)
(***************************************************************************)
LeadByte ==
  "0xC3"

ContByte ==
  "0xA9"

EAcute ==
  "U+00E9"

Replacement ==
  "U+FFFD"

\* The concatenation f[lo] \o ... \o f[hi].
RECURSIVE ConcatRange(_, _, _)
ConcatRange(f, lo, hi) ==
  IF lo > hi THEN <<>>
  ELSE IF lo = hi THEN f[lo]
  ELSE LET mid == (lo + hi) \div 2
       IN  ConcatRange(f, lo, mid) \o ConcatRange(f, mid + 1, hi)

\* What the decoder emits on reading bytes[i]: a lead byte is held back; a
\* continuation byte completes a held lead byte, and is malformed otherwise; any
\* other byte turns a held lead byte into U+FFFD and is emitted itself.
DecodeEmit(bytes, pending, i) ==
  LET b == bytes[i]
      held == IF i = 1 THEN pending ELSE bytes[i - 1] = LeadByte
  IN  IF b = ContByte THEN (IF held THEN <<EAcute>> ELSE <<Replacement>>)
      ELSE (IF held THEN <<Replacement>> ELSE <<>>)
             \o (IF b = LeadByte THEN <<>> ELSE <<b>>)

DecodeFrom(bytes, pending) ==
  [text |-> ConcatRange([i \in 1..Len(bytes) |-> DecodeEmit(bytes, pending, i)],
                        1, Len(bytes)),
   pending |-> IF bytes = <<>> THEN pending ELSE Last(bytes) = LeadByte]

\* decoder.decode(value, {stream: true}) without the stream option: nothing is
\* carried to the next call, an incomplete character becomes U+FFFD.
DecodeNoStream(bytes, pending) ==
  LET r == DecodeFrom(bytes, FALSE)
  IN  [text |-> IF r.pending THEN Append(r.text, Replacement) ELSE r.text,
       pending |-> FALSE]

\* decoder.decode(value, {stream: true})
Decode(bytes, pending) ==
  DecodeFrom(bytes, pending)

(***************************************************************************)
(* JSON.parse, for the JSON the wire carries: null, a number without sign, *)
(* fraction or exponent, a string without escapes, and an object whose     *)
(* members are such scalars.  Anything else is a SyntaxError.              *)
(* A decoded value is [kind, members, str]:                                *)
(*   kind "object": members is the sequence of <<key, value>> pairs;       *)
(*   kind "string" / "number": str is the text / the digits;               *)
(*   kind "null".                                                          *)
(***************************************************************************)
JsonWs ==
  {" ", "\t", "\n", "\r"}

Digits ==
  {"0", "1", "2", "3", "4", "5", "6", "7", "8", "9"}

Punct ==
  {"{", "}", ":", ","}

BadTok ==
  [t |-> "bad", v |-> <<>>]

\* Index of the closing quote of a string literal whose body starts at s[1];
\* 0 if there is none before a control character or an escape.
RECURSIVE CloseQuote(_, _)
CloseQuote(s, i) ==
  IF i > Len(s) THEN 0
  ELSE IF s[i] = "\"" THEN i
  ELSE IF s[i] \in {"\n", "\r", "\t", "\\"} THEN 0
  ELSE CloseQuote(s, i + 1)

RECURSIVE DigitRun(_, _)
DigitRun(s, i) ==
  IF i <= Len(s) /\ s[i] \in Digits THEN DigitRun(s, i + 1) ELSE i - 1

RECURSIVE JsonTokens(_)
JsonTokens(s) ==
  IF s = <<>> THEN <<>>
  ELSE LET c == Head(s) IN
    IF c \in JsonWs THEN JsonTokens(Tail(s))
    ELSE IF c \in Punct THEN <<[t |-> "punct", v |-> <<c>>]>> \o JsonTokens(Tail(s))
    ELSE IF c = "\"" THEN
      LET n == CloseQuote(Tail(s), 1)
      IN  IF n = 0 THEN <<BadTok>>
          ELSE <<[t |-> "str", v |-> SubSeq(s, 2, n)]>> \o JsonTokens(Drop(s, n + 1))
    ELSE IF StartsWith(s, <<"n", "u", "l", "l">>)
      THEN <<[t |-> "null", v |-> <<>>]>> \o JsonTokens(Drop(s, 4))
    ELSE IF c \in Digits THEN
      LET k == DigitRun(s, 1)
      IN  IF k > 1 /\ c = "0" THEN <<BadTok>>
          ELSE <<[t |-> "num", v |-> SubSeq(s, 1, k)]>> \o JsonTokens(Drop(s, k))
    ELSE <<BadTok>>

IsPunct(tok, c) ==
  tok.t = "punct" /\ tok.v = <<c>>

IsScalar(tok) ==
  tok.t \in {"str", "null", "num"}

\* The value of a member: the text of a string, Null, or the tagged digits of
\* a number.
ScalarValue(tok) ==
  IF tok.t = "str" THEN tok.v
  ELSE IF tok.t = "null" THEN Null
  ELSE <<"<number>">> \o tok.v

\* toks is  string ":" scalar ( "," string ":" scalar )*
RECURSIVE MembersOk(_)
MembersOk(toks) ==
  /\ Len(toks) >= 3
  /\ toks[1].t = "str"
  /\ IsPunct(toks[2], ":")
  /\ IsScalar(toks[3])
  /\ \/ Len(toks) = 3
     \/ Len(toks) > 4 /\ IsPunct(toks[4], ",") /\ MembersOk(Drop(toks, 4))

RECURSIVE MembersOf(_)
MembersOf(toks) ==
  IF Len(toks) < 3 THEN <<>>
  ELSE <<  <<toks[1].v, ScalarValue(toks[3])>>  >> \o MembersOf(Drop(toks, 4))

JsonFail ==
  [ok |-> FALSE, val |-> [kind |-> "null", members |-> <<>>, str |-> <<>>]]

JsonOk(kind, members, str) ==
  [ok |-> TRUE, val |-> [kind |-> kind, members |-> members, str |-> str]]

\* JSON.parse(s): ok is FALSE where JSON.parse throws.
JSONParse(s) ==
  LET toks == JsonTokens(s) IN
  IF toks = <<>> THEN JsonFail
  ELSE IF \E i \in 1..Len(toks) : toks[i].t = "bad" THEN JsonFail
  ELSE IF Len(toks) = 1 THEN
    IF toks[1].t = "null" THEN JsonOk("null", <<>>, <<>>)
    ELSE IF toks[1].t = "num" THEN JsonOk("number", <<>>, toks[1].v)
    ELSE IF toks[1].t = "str" THEN JsonOk("string", <<>>, toks[1].v)
    ELSE JsonFail
  ELSE IF IsPunct(toks[1], "{") /\ IsPunct(Last(toks), "}") THEN
    LET inner == SubSeq(toks, 2, Len(toks) - 1) IN
    IF inner = <<>> THEN JsonOk("object", <<>>, <<>>)
    ELSE IF MembersOk(inner) THEN JsonOk("object", MembersOf(inner), <<>>)
    ELSE JsonFail
  ELSE JsonFail

\* The JavaScript string s as an event value.
StringValue(s) ==
  [kind |-> "string", members |-> <<>>, str |-> s]

(***************************************************************************)
(* parseSSEStream of api.js                                                *)
(* Parser state: buffer (text), eventLines (sequence of texts), pending    *)
(* (the decoder's kept lead byte).  A step returns the new state and out,  *)
(* the events yielded during the step, in order.                           *)
(***************************************************************************)
RECURSIVE DataParts(_)
DataParts(eventLines) ==
  IF eventLines = <<>> THEN <<>>
  ELSE IF StartsWith(Head(eventLines), DataPrefix)
    THEN <<Trim(Drop(Head(eventLines), 5))>> \o DataParts(Tail(eventLines))
    ELSE DataParts(Tail(eventLines))

\* The yield without the catch: what a failed parse leaves is yielded.
ParseUnchecked(dataString) ==
  JSONParse(dataString).val

\* try { yield JSON.parse(dataString) } catch { yield dataString }
ParseOrRaw(dataString) ==
  LET r == JSONParse(dataString)
  IN  IF r.ok THEN r.val ELSE StringValue(dataString)

RECURSIVE ApiLines(_, _, _)
ApiLines(lines, eventLines, out) ==
  IF lines = <<>> THEN [eventLines |-> eventLines, out |-> out]
  ELSE LET line == Trim(Head(lines)) IN
    IF line = <<>>
      THEN IF eventLines # <<>>
             THEN ApiLines(Tail(lines), <<>>,
                           Append(out, ParseOrRaw(Join(DataParts(eventLines), NL))))
             ELSE ApiLines(Tail(lines), eventLines, out)
      ELSE ApiLines(Tail(lines), Append(eventLines, line), out)

ApiInit ==
  [buffer |-> <<>>, eventLines |-> <<>>, pending |-> FALSE, last |-> Null]

\* One iteration of the read loop with a chunk that loses the incomplete last
\* line instead of keeping it in buffer.
ApiFeedDropTail(st, bytes) ==
  LET d == Decode(bytes, st.pending)
      lines == Split(st.buffer \o d.text, NL)
      r == ApiLines(Front(lines), st.eventLines, <<>>)
  IN  [st |-> [buffer |-> <<>>, eventLines |-> r.eventLines,
               pending |-> d.pending, last |-> st.last],
       out |-> r.out]

\* One iteration of the read loop, for a chunk (done is false).
ApiFeed(st, bytes) ==
  LET d == Decode(bytes, st.pending)
      lines == Split(st.buffer \o d.text, NL)
      r == ApiLines(Front(lines), st.eventLines, <<>>)
  IN  [st |-> [buffer |-> Last(lines), eventLines |-> r.eventLines,
               pending |-> d.pending, last |-> st.last],
       out |-> r.out]

\* The generator returning at end of stream without looking at what is left.
ApiFlushNothing(st) ==
  <<>>

\* The code after the loop (done is true): the events yielded at end of stream.
ApiFlush(st) ==
  LET eventLines == IF Trim(st.buffer) # <<>>
                      THEN Append(st.eventLines, Trim(st.buffer))
                      ELSE st.eventLines
      dataParts == DataParts(eventLines)
  IN  IF eventLines # <<>> /\ dataParts # <<>>
        THEN <<ParseOrRaw(Join(dataParts, NL))>>
        ELSE <<>>

(***************************************************************************)
(* parseSSEStream of utils.js                                              *)
(* Parser state: buffer, last (lastYieldedEvent: a text, or Null), pending.*)
(***************************************************************************)
RECURSIVE UtilsParts(_, _, _)
UtilsParts(parts, last, out) ==
  IF parts = <<>> THEN [last |-> last, out |-> out]
  ELSE LET part == Head(parts) IN
    IF StartsWith(part, DataPrefix)
      THEN LET dataString == Trim(Drop(part, 5))
               r == JSONParse(dataString)
           IN  IF dataString = last THEN UtilsParts(Tail(parts), last, out)
               ELSE UtilsParts(Tail(parts), dataString,
                               IF r.ok THEN Append(out, r.val) ELSE out)
      ELSE UtilsParts(Tail(parts), last, out)

UtilsFeed(st, bytes) ==
  LET d == Decode(bytes, st.pending)
      parts == Split(st.buffer \o d.text, BlankLine)
      r == UtilsParts(Front(parts), st.last, <<>>)
  IN  [st |-> [buffer |-> Last(parts), eventLines |-> <<>>,
               pending |-> d.pending, last |-> r.last],
       out |-> r.out]

UtilsFlush(st) ==
  IF StartsWith(st.buffer, DataPrefix)
    THEN LET dataString == Trim(Drop(st.buffer, 5))
             r == JSONParse(dataString)
         IN  IF dataString # st.last /\ r.ok THEN <<r.val>> ELSE <<>>
    ELSE <<>>

(***************************************************************************)
(* The wire format: a record is one or more lines, records are separated   *)
(* by a blank line; a data line is "data: " and a fragment of the JSON     *)
(* payload.                                                                *)
(***************************************************************************)
Quote(s) ==
  <<"\"">> \o s \o <<"\"">>

KeySection ==
  <<"s", "e", "c", "t", "i", "o", "n">>

KeyText ==
  <<"t", "e", "x", "t">>

KeySessionId ==
  <<"s", "e", "s", "s", "i", "o", "n", "I", "d">>

\* {"<key>":<json>}  and  {"<key>":<json>,"<key2>":<json2>}
Obj1(k, j) ==
  <<"{">> \o Quote(k) \o <<":">> \o j \o <<"}">>

Obj2(k, j, k2, j2) ==
  <<"{">> \o Quote(k) \o <<":">> \o j \o <<",">> \o Quote(k2) \o <<":">> \o j2 \o <<"}">>

DataLine(payload) ==
  DataPrefix \o <<" ">> \o payload

\* The bytes of a body: the records' lines joined by newlines, the records
\* joined by blank lines, then the ending.
RECURSIVE RecordTexts(_)
RecordTexts(recs) ==
  IF recs = <<>> THEN <<>> ELSE <<Join(Head(recs), NL)>> \o RecordTexts(Tail(recs))

WireOf(recs, ending) ==
  Join(RecordTexts(recs), BlankLine) \o ending

(***************************************************************************)
(* The parser alone, fed a body in chunks cut anywhere.                    *)
(***************************************************************************)
MaxRecords ==
  2

Variants ==
  {"api", "utils"}

Endings ==
  {<<>>, NL, BlankLine}

TextX ==
  Obj1(KeyText, Quote(<<"x">>))

TextY ==
  Obj1(KeyText, Quote(<<"y">>))

NotJson ==
  <<"n", "o">>

\* Record templates: sequences of lines.
RecX ==
  << DataLine(TextX) >>

RecY ==
  << DataLine(TextY) >>

RecBad ==
  << DataLine(NotJson) >>

\* one payload on two data lines
RecSplit ==
  << DataLine(<<"{">> \o Quote(KeyText) \o <<":">>), DataLine(Quote(<<"x">>) \o <<"}">>) >>

\* a comment line, then a data line
RecComment ==
  << <<":", " ", "k">>, DataLine(<<"1">>) >>

\* an empty payload
RecEmpty ==
  << DataPrefix >>

\* no data line at all
RecNoData ==
  << <<":", " ", "k">> >>

\* a two-byte character in the payload, and a carriage return before the newline
RecUtf ==
  << DataLine(<<"\"", LeadByte, ContByte, "\"">>) \o <<"\r">> >>

Templates ==
  {RecX, RecY, RecBad, RecSplit, RecComment, RecEmpty, RecNoData, RecUtf}

RECURSIVE SeqsUpTo(_, _)
SeqsUpTo(S, n) ==
  IF n = 0 THEN {<<>>}
  ELSE LET shorter == SeqsUpTo(S, n - 1)
       IN  shorter \cup {Append(q, x) : q \in shorter, x \in S}

\* pcut records where chunks have ended so far: inside a line (line), and
\* between the two newlines of a blank-line separator (sep).
VARIABLES pvariant, precs, pending, ptext, ppos, pst, pout, ppc, pcut

pvars ==
  <<pvariant, precs, pending, ptext, ppos, pst, pout, ppc, pcut>>

Feed(variant, st, bytes) ==
  IF variant = "api" THEN ApiFeed(st, bytes) ELSE UtilsFeed(st, bytes)

Flush(variant, st) ==
  IF variant = "api" THEN ApiFlush(st) ELSE UtilsFlush(st)

\* The events of a body that arrives as a single chunk.
OneShot(variant, text) ==
  LET r == Feed(variant, ApiInit, text) IN r.out \o Flush(variant, r.st)

PInit ==
  /\ pvariant \in Variants
  /\ precs \in SeqsUpTo(Templates, MaxRecords)
  /\ pending \in Endings
  /\ ptext = WireOf(precs, pending)
  /\ ppos = 0
  /\ pst = ApiInit
  /\ pout = <<>>
  /\ ppc = "reading"
  /\ pcut = [line |-> FALSE, sep |-> FALSE]

\* reader.read() resolves with the next n bytes
PRead(n) ==
  /\ ppc = "reading"
  /\ ppos + n <= Len(ptext)
  /\ LET r == Feed(pvariant, pst, SubSeq(ptext, ppos + 1, ppos + n))
     IN  /\ pst' = r.st
         /\ pout' = pout \o r.out
  /\ ppos' = ppos + n
  /\ pcut' = IF ppos + n = Len(ptext) THEN pcut
             ELSE [line |-> pcut.line \/ (ptext[ppos + n] # "\n" /\ ptext[ppos + n + 1] # "\n"),
                   sep |-> pcut.sep \/ (ptext[ppos + n] = "\n" /\ ptext[ppos + n + 1] = "\n")]
  /\ UNCHANGED <<pvariant, precs, pending, ptext, ppc>>

\* reader.read() resolves with done
PDone ==
  /\ ppc = "reading"
  /\ ppos = Len(ptext)
  /\ pout' = pout \o Flush(pvariant, pst)
  /\ ppc' = "done"
  /\ UNCHANGED <<pvariant, precs, pending, ptext, ppos, pst, pcut>>

(***************************************************************************)
(* Chatbot.jsx: messages, the consumer loop of submitNewMessage and        *)
(* ChatMessages.                                                           *)
(* A message is [role, content, section, text]; a field the object does    *)
(* not have is Undefined.                                                  *)
(***************************************************************************)
Summary ==
  <<"S", "u", "m", "m", "a", "r", "y">>

Answer ==
  <<"A", "n", "s", "w", "e", "r">>

SessionUpdate ==
  <<"S", "e", "s", "s", "i", "o", "n", "U", "p", "d", "a", "t", "e">>

Done ==
  <<"D", "O", "N", "E">>

QueryExecution ==
  <<"Q", "u", "e", "r", "y", " ", "e", "x", "e", "c", "u", "t", "i", "o", "n">>

ErrorText ==
  <<"E", "r", "r", "o", "r", " ", "o", "c", "c", "u", "r", "r", "e", "d">>

DefaultChat ==
  <<"d", "e", "f", "a", "u", "l", "t", "-", "c", "h", "a", "t">>

\* the backquote character
Backquote ==
  "U+0060"

CypherFence ==
  <<Backquote, Backquote, Backquote, "c", "y", "p", "h", "e", "r", "\n">>

JsonFence ==
  <<Backquote, Backquote, Backquote, "j", "s", "o", "n", "\n">>

FenceEnd ==
  <<"\n", Backquote, Backquote, Backquote>>

UserMsg(content) ==
  [role |-> "user", content |-> content, section |-> Undefined, text |-> Undefined]

AssistantMsg(section, text) ==
  [role |-> "assistant", content |-> Undefined, section |-> section, text |-> text]

ErrorMarker ==
  AssistantMsg(Undefined, ErrorText)

\* The value of the last member named key, Undefined if there is none.
RECURSIVE Lookup(_, _, _)
Lookup(members, key, i) ==
  IF i = 0 THEN Undefined
  ELSE IF members[i][1] = key THEN members[i][2]
  ELSE Lookup(members, key, i - 1)

\* event.<key>, for an event that is not null (a string or a number has no
\* such property).
Get(event, key) ==
  IF event.kind = "object" THEN Lookup(event.members, key, Len(event.members))
  ELSE Undefined

Truthy(v) ==
  v \notin {Undefined, Null, <<>>, <<"<number>", "0">>}

\* v || ''
OrEmpty(v) ==
  IF Truthy(v) THEN v ELSE <<>>

\* The updater passed to setMessages with the section test left out: every
\* event extends the last assistant message.
MergeIgnoringSection(prev, event) ==
  IF prev # <<>> /\ Last(prev).role = "assistant"
    THEN [prev EXCEPT ![Len(prev)].text = OrEmpty(@) \o OrEmpty(Get(event, KeyText))]
    ELSE Append(prev, AssistantMsg(Get(event, KeySection), OrEmpty(Get(event, KeyText))))

\* The updater passed to setMessages for an event.
MergeEvent(prev, event) ==
  IF prev # <<>> /\ Last(prev).role = "assistant"
       /\ Last(prev).section = Get(event, KeySection)
    THEN [prev EXCEPT ![Len(prev)].text = OrEmpty(@) \o OrEmpty(Get(event, KeyText))]
    ELSE Append(prev, AssistantMsg(Get(event, KeySection), OrEmpty(Get(event, KeyText))))

\* The session update without the write to localStorage.
SetSessionOnly(s, id) ==
  [s EXCEPT !.sessionId = id]

\* setSessionId(event.sessionId); localStorage.setItem('chatSessionId', ...)
SetSession(s, id) ==
  [s EXCEPT !.sessionId = id, !.stored = id]

\* The catch branch replacing the list by the marker.
OnErrorReplacing(prev) ==
  <<ErrorMarker>>

\* The updater of the catch branch.
OnError(prev) ==
  Append(prev, ErrorMarker)

\* The loop body without the test for the DONE marker.
LoopBodyNoDone(s, event) ==
  IF event.kind = "null" THEN [s |-> s, threw |-> TRUE]
  ELSE IF Get(event, KeySection) = SessionUpdate /\ Truthy(Get(event, KeySessionId))
    THEN [s |-> SetSession(s, Get(event, KeySessionId)), threw |-> FALSE]
  ELSE [s |-> [s EXCEPT !.messages = MergeEvent(@, event)], threw |-> FALSE]

\* The body of the for-await loop for one event, on s = [messages, sessionId,
\* stored]; threw is TRUE where the body throws (a property of null is read).
LoopBody(s, event) ==
  IF event.kind = "null" THEN [s |-> s, threw |-> TRUE]
  ELSE IF Get(event, KeySection) = SessionUpdate /\ Truthy(Get(event, KeySessionId))
    THEN [s |-> SetSession(s, Get(event, KeySessionId)), threw |-> FALSE]
  ELSE IF Get(event, KeyText) = Done THEN [s |-> s, threw |-> FALSE]
  ELSE [s |-> [s EXCEPT !.messages = MergeEvent(@, event)], threw |-> FALSE]

\* ChatMessages: the chunks built from the messages list.
EmptyChunk(userText) ==
  [userText |-> userText, nonSummaryItems |-> <<>>, summaryText |-> <<>>]

CodeBlock(section, text) ==
  IF section = QueryExecution THEN CypherFence \o text \o FenceEnd
  ELSE JsonFence \o text \o FenceEnd

\* The test of the ChatMessages that knows 'Summary' only.
IsFinalSummaryOnly(section) ==
  section = Summary

IsFinal(section) ==
  section = Summary \/ section = Answer

\* acc = [chunks, has, cur]: has is FALSE while currentChunk is null.
ChunkStep(acc, msg) ==
  IF msg.role = "user"
    THEN [chunks |-> IF acc.has THEN Append(acc.chunks, acc.cur) ELSE acc.chunks,
          has |-> TRUE,
          cur |-> EmptyChunk(msg.content)]
  ELSE IF msg.role = "assistant"
    THEN LET cur == IF acc.has THEN acc.cur ELSE EmptyChunk(<<>>)
         IN  [chunks |-> acc.chunks,
              has |-> TRUE,
              cur |-> IF IsFinal(msg.section)
                        THEN [cur EXCEPT !.summaryText = @ \o msg.text]
                        ELSE [cur EXCEPT !.nonSummaryItems =
                                Append(@, [section |-> msg.section,
                                           codeBlock |-> CodeBlock(msg.section, msg.text)])]]
  ELSE acc

RECURSIVE ChunkFold(_, _, _)
ChunkFold(msgs, i, acc) ==
  IF i > Len(msgs) THEN acc ELSE ChunkFold(msgs, i + 1, ChunkStep(acc, msgs[i]))

ChatMessages(msgs) ==
  LET acc == ChunkFold(msgs, 1, [chunks |-> <<>>, has |-> FALSE, cur |-> EmptyChunk(<<>>)])
  IN  IF acc.has THEN Append(acc.chunks, acc.cur) ELSE acc.chunks

(***************************************************************************)
(* The environment of the application: what the backend and the user can   *)
(* send.                                                                   *)
(***************************************************************************)
MaxTurns ==
  2

\* records in all the bodies of a run, together
MaxEvents ==
  3

\* the same, in the runs that vary the session and the mount effect
FewEvents ==
  2

\* the bytes one reader.read() delivers at most, unless it delivers all
ChunkLen ==
  40

SavedId ==
  <<"s", "0">>

AssignedId ==
  <<"s", "2">>

CreatedId(i) ==
  IF i = 1 THEN <<"c", "1">> ELSE <<"c", "2">>

Question ==
  <<"q">>

Inputs ==
  {<<" ", "q", " ">>}

SectionText(section, text) ==
  Obj2(KeySection, section, KeyText, Quote(text))

BodyAx ==
  << DataLine(SectionText(Quote(<<"A">>), <<"x">>)) >>

BodyAy ==
  << DataLine(SectionText(Quote(<<"A">>), <<"y">>)) >>

BodyBz ==
  << DataLine(SectionText(Quote(<<"B">>), <<"z">>)) >>

BodyAnswer ==
  << DataLine(SectionText(Quote(Answer), <<"s">>)) >>

BodySummary ==
  << DataLine(SectionText(Quote(Summary), <<"t">>)) >>

BodyUpdate ==
  << DataLine(Obj2(KeySection, Quote(SessionUpdate), KeySessionId, Quote(AssignedId))) >>

BodyDone ==
  << DataLine(SectionText(<<"n", "u", "l", "l">>, Done)) >>

BodyBad ==
  << DataLine(<<"n", "o", "t", "-", "j", "s", "o", "n">>) >>

BodyNull ==
  << DataLine(<<"n", "u", "l", "l">>) >>

BodyEndings ==
  {<<>>, BlankLine}

EffectRuns ==
  {1, 2}

\* One run of the application: the records its backend emits (records), how
\* many in all (budget), the X-Session-ID headers it sends (hdrs), how its
\* bodies end (endings), how often the mount effect runs (runs: twice under
\* StrictMode in a development build) and what localStorage holds (stored).
Env(records, budget, hdrs, endings, runs, saved) ==
  [records |-> records, budget |-> budget, hdrs |-> hdrs, endings |-> endings,
   runs |-> runs, stored |-> saved]

Environments ==
  { Env({BodyAx, BodyAy, BodyBz}, MaxEvents, {Null}, {BlankLine}, {1}, {SavedId}),
    Env({BodyAx, BodyAnswer, BodySummary}, MaxEvents, {Null}, {BlankLine}, {1}, {SavedId}),
    Env({BodyAx, BodyBad, BodyNull}, MaxEvents, {Null}, {BlankLine}, {1}, {SavedId}),
    Env({BodyAx, BodyDone}, FewEvents, {Null}, BodyEndings, {1}, {SavedId}),
    Env({BodyAx, BodyUpdate}, MaxEvents, {Null, AssignedId}, {BlankLine}, {1}, {Null, SavedId}),
    Env({BodyAx}, FewEvents, {Null, AssignedId}, {BlankLine}, EffectRuns, {Null, SavedId}) }

\* GET /memory/<id>: one earlier turn
History1 ==
  << UserMsg(<<"h">>), AssistantMsg(Answer, <<"a">>) >>

\* What getChatHistory(chatId) can return.
HistoryResults(chatId) ==
  IF ~Truthy(chatId) \/ chatId = DefaultChat THEN {<<>>} ELSE {<<>>, History1}

(***************************************************************************)
(* The application.                                                        *)
(*   messages, newMessage, loading, sessionId, loadingHistory: the state   *)
(*     of Chatbot (the result of every update queued so far);              *)
(*   view: the values of the last committed render, which the handlers of  *)
(*     ChatInput and submitNewMessage close over;                          *)
(*   stored: localStorage 'chatSessionId' (Null when absent);              *)
(*   init: per run of the mount effect, [pc, saved];                       *)
(*   streams: one entry per accepted query, in order:                      *)
(*     chatId, at (index of its user message in messages; 0 once the list  *)
(*     was replaced by a history),                                         *)
(*     st ("fetch", "open", "flushed", "closed"), body (the records of the *)
(*     response), rest (bytes not read yet), ps (parser state), queue      *)
(*     (events yielded and not yet consumed), seen (events consumed),      *)
(*     outcome ("", "ended", "transport", "threw");                        *)
(*   env: the run (see Env); its budget falls with every body sent.        *)
(***************************************************************************)
VARIABLES messages, newMessage, loading, sessionId, loadingHistory, view,
          stored, init, streams, env

avars ==
  <<messages, newMessage, loading, sessionId, loadingHistory, view, stored, init, streams,
    env>>

vars ==
  <<pvariant, precs, pending, ptext, ppos, pst, pout, ppc, pcut,
    messages, newMessage, loading, sessionId, loadingHistory, view, stored, init, streams,
    env>>

Snapshot ==
  [loading |-> loading, sessionId |-> sessionId,
   loadingHistory |-> loadingHistory, newMessage |-> newMessage]

\* Between two events of one chunk, and between the end of the stream and the
\* finally block, only promise jobs run: no other handler can.
Busy ==
  \E i \in DOMAIN streams : streams[i].queue # <<>> \/ streams[i].st = "flushed"

AStart(e, saved) ==
  /\ messages = <<>>
  /\ newMessage = <<>>
  /\ loading = FALSE
  /\ sessionId = Null
  /\ loadingHistory = FALSE
  /\ view = [loading |-> FALSE, sessionId |-> Null,
             loadingHistory |-> FALSE, newMessage |-> <<>>]
  /\ stored = saved
  /\ init = [i \in EffectRuns |-> [pc |-> "idle", saved |-> Null]]
  /\ streams = <<>>
  /\ env = e

AInit ==
  \E e \in Environments : \E saved \in e.stored : AStart(e, saved)

\* The mount effect: initializeChat up to its first await, k times (twice
\* under React.StrictMode in a development build).
Mount(k) ==
  /\ \A i \in EffectRuns : init[i].pc = "idle"
  /\ k \in env.runs
  /\ IF Truthy(stored)
       THEN /\ sessionId' = stored
            /\ loadingHistory' = TRUE
            /\ init' = [i \in EffectRuns |->
                          IF i <= k THEN [pc |-> "history", saved |-> stored]
                          ELSE [pc |-> "off", saved |-> Null]]
       ELSE /\ init' = [i \in EffectRuns |->
                          IF i <= k THEN [pc |-> "create", saved |-> Null]
                          ELSE [pc |-> "off", saved |-> Null]]
            /\ UNCHANGED <<sessionId, loadingHistory>>
  /\ UNCHANGED <<messages, newMessage, loading, view, stored, streams, env>>

\* initializeChat after await api.getChatHistory(savedSessionId)
HistoryDone(i, history) ==
  /\ init[i].pc = "history"
  /\ ~Busy
  /\ history \in HistoryResults(init[i].saved)
  /\ messages' = IF history # <<>> THEN history ELSE messages
  /\ loadingHistory' = FALSE
  /\ init' = [init EXCEPT ![i].pc = "done"]
  /\ streams' = IF history # <<>>
                  THEN [j \in DOMAIN streams |-> [streams[j] EXCEPT !.at = 0]]
                  ELSE streams
  /\ UNCHANGED <<newMessage, loading, sessionId, view, stored, env>>

\* createChat without the fallback of its catch block.
CreateChatNoFallback(i, ok) ==
  IF ok THEN CreatedId(i) ELSE Null

\* api.createChat() of run i: the id of the new session, or 'default-chat' when
\* the request failed
CreateChat(i, ok) ==
  IF ok THEN CreatedId(i) ELSE DefaultChat

\* initializeChat after createChat, without the write to localStorage.
CreateDoneNoPersist(i, ok) ==
  /\ init[i].pc = "create"
  /\ ~Busy
  /\ sessionId' = CreateChat(i, ok)
  /\ init' = [init EXCEPT ![i].pc = "done"]
  /\ UNCHANGED <<messages, newMessage, loading, loadingHistory, view, stored, streams, env>>

\* initializeChat after await api.createChat()
CreateDone(i, ok) ==
  /\ init[i].pc = "create"
  /\ ~Busy
  /\ LET id == CreateChat(i, ok)
     IN  /\ sessionId' = id
         /\ stored' = id
  /\ init' = [init EXCEPT ![i].pc = "done"]
  /\ UNCHANGED <<messages, newMessage, loading, loadingHistory, view, streams, env>>

\* React commits a render of the state
Render ==
  /\ ~Busy
  /\ view # Snapshot
  /\ view' = Snapshot
  /\ UNCHANGED <<messages, newMessage, loading, sessionId, loadingHistory, stored, init, streams, env>>

\* onChange of the text field
SetNewMessage(t) ==
  /\ ~Busy
  /\ ~view.loadingHistory
  /\ view.newMessage # t
  /\ newMessage' = t
  /\ view' = [view EXCEPT !.newMessage = t]
  /\ UNCHANGED <<messages, loading, sessionId, loadingHistory, stored, init, streams, env>>

NewStream(chatId, at) ==
  [chatId |-> chatId, at |-> at, st |-> "fetch", body |-> <<>>, rest |-> <<>>,
   ps |-> ApiInit, queue |-> <<>>, seen |-> <<>>, outcome |-> ""]

\* submitNewMessage without setLoading(true)
SubmitNoLock ==
  LET trimmedMessage == Trim(view.newMessage) IN
  IF trimmedMessage = <<>> \/ view.loading \/ ~Truthy(view.sessionId)
    THEN UNCHANGED avars
    ELSE /\ Len(streams) < MaxTurns
         /\ messages' = Append(messages, UserMsg(trimmedMessage))
         /\ newMessage' = <<>>
         /\ streams' = Append(streams, NewStream(view.sessionId, Len(messages) + 1))
         /\ view' = [view EXCEPT !.newMessage = <<>>]
         /\ UNCHANGED <<loading, sessionId, loadingHistory, stored, init, env>>

\* submitNewMessage up to the request of sendChatMessage
SubmitNewMessage ==
  LET trimmedMessage == Trim(view.newMessage) IN
  IF trimmedMessage = <<>> \/ view.loading \/ ~Truthy(view.sessionId)
    THEN UNCHANGED avars
    ELSE /\ Len(streams) < MaxTurns
         /\ messages' = Append(messages, UserMsg(trimmedMessage))
         /\ newMessage' = <<>>
         /\ loading' = TRUE
         /\ streams' = Append(streams, NewStream(view.sessionId, Len(messages) + 1))
         /\ view' = [view EXCEPT !.newMessage = <<>>, !.loading = TRUE]
         /\ UNCHANGED <<sessionId, loadingHistory, stored, init, env>>

\* ChatInput.handleKeyDown: Enter without shift
HandleKeyDown ==
  /\ ~Busy
  /\ ~view.loadingHistory
  /\ ~view.loading
  /\ SubmitNewMessage

\* The send button, enabled unless isLoading || !newMessage.trim()
ClickSend ==
  /\ ~Busy
  /\ ~view.loadingHistory
  /\ ~(view.loading \/ Trim(view.newMessage) = <<>>)
  /\ SubmitNewMessage

\* The catch and finally blocks of submitNewMessage for stream i.
Fail(i, outcome) ==
  /\ messages' = OnError(messages)
  /\ loading' = FALSE
  /\ streams' = [streams EXCEPT ![i].st = "closed", ![i].queue = <<>>,
                                ![i].outcome = outcome]

\* fetch rejects, or the response is not ok
QueryFail(i) ==
  /\ streams[i].st = "fetch"
  /\ ~Busy
  /\ Fail(i, "transport")
  /\ UNCHANGED <<newMessage, sessionId, loadingHistory, view, stored, init, env>>

\* The response is ok: header X-Session-ID is hdr (Null when absent), the body
\* is the records of body and the ending.
QueryOk(i, hdr, body, ending) ==
  /\ streams[i].st = "fetch"
  /\ ~Busy
  /\ hdr \in env.hdrs
  /\ ending \in env.endings
  /\ Len(body) <= env.budget
  /\ env' = [env EXCEPT !.budget = @ - Len(body)]
  /\ streams' = [streams EXCEPT
       ![i].st = "open",
       ![i].body = body,
       ![i].rest = WireOf(body, ending),
       ![i].queue = IF Truthy(hdr) /\ hdr # streams[i].chatId
                      THEN << [kind |-> "object",
                               members |-> << <<KeySection, SessionUpdate>>,
                                              <<KeySessionId, hdr>> >>,
                               str |-> <<>>] >>
                      ELSE <<>>]
  /\ UNCHANGED <<messages, newMessage, loading, sessionId, loadingHistory, view, stored, init>>

\* reader.read() resolves with the next n bytes of the body
Read(i, n) ==
  /\ streams[i].st = "open"
  /\ ~Busy
  /\ n >= 1
  /\ n <= Len(streams[i].rest)
  /\ LET r == ApiFeed(streams[i].ps, SubSeq(streams[i].rest, 1, n))
     IN  streams' = [streams EXCEPT ![i].ps = r.st, ![i].queue = r.out,
                                    ![i].rest = Drop(@, n)]
  /\ UNCHANGED <<messages, newMessage, loading, sessionId, loadingHistory, view, stored, init, env>>

\* reader.read() resolves with done
ReadDone(i) ==
  /\ streams[i].st = "open"
  /\ ~Busy
  /\ streams[i].rest = <<>>
  /\ streams' = [streams EXCEPT ![i].st = "flushed", ![i].queue = ApiFlush(streams[i].ps)]
  /\ UNCHANGED <<messages, newMessage, loading, sessionId, loadingHistory, view, stored, init, env>>

\* reader.read() rejects
ReadFail(i) ==
  /\ streams[i].st = "open"
  /\ ~Busy
  /\ Fail(i, "transport")
  /\ UNCHANGED <<newMessage, sessionId, loadingHistory, view, stored, init, env>>

\* One iteration of the for-await loop: the next yielded event
Consume(i) ==
  /\ streams[i].queue # <<>>
  /\ LET event == Head(streams[i].queue)
         r == LoopBody([messages |-> messages, sessionId |-> sessionId, stored |-> stored],
                       event)
     IN  IF r.threw
           THEN /\ messages' = OnError(messages)
                /\ loading' = FALSE
                /\ streams' = [streams EXCEPT ![i].st = "closed", ![i].queue = <<>>,
                                 ![i].seen = Append(@, event), ![i].outcome = "threw"]
                /\ UNCHANGED <<sessionId, stored>>
           ELSE /\ messages' = r.s.messages
                /\ sessionId' = r.s.sessionId
                /\ stored' = r.s.stored
                /\ streams' = [streams EXCEPT ![i].queue = Tail(@),
                                 ![i].seen = Append(@, event)]
                /\ UNCHANGED loading
  /\ UNCHANGED <<newMessage, loadingHistory, view, init, env>>

\* The loop ending without the finally block.
FinishNoUnlock(i) ==
  /\ streams[i].st = "flushed"
  /\ streams[i].queue = <<>>
  /\ streams' = [streams EXCEPT ![i].st = "closed", ![i].outcome = "ended"]
  /\ UNCHANGED <<messages, newMessage, loading, sessionId, loadingHistory, view, stored, init, env>>

\* The loop ends with the stream: the finally block
Finish(i) ==
  /\ streams[i].st = "flushed"
  /\ streams[i].queue = <<>>
  /\ loading' = FALSE
  /\ streams' = [streams EXCEPT ![i].st = "closed", ![i].outcome = "ended"]
  /\ UNCHANGED <<messages, newMessage, sessionId, loadingHistory, view, stored, init, env>>

PIdle ==
  /\ pvariant = "api"
  /\ precs = <<>>
  /\ pending = <<>>
  /\ ptext = <<>>
  /\ ppos = 0
  /\ pst = ApiInit
  /\ pout = <<>>
  /\ ppc = "done"
  /\ pcut = [line |-> FALSE, sep |-> FALSE]

Init ==
  AInit /\ PIdle

Next ==
  \/ \E k \in EffectRuns : Mount(k) /\ UNCHANGED pvars
  \/ \E i \in EffectRuns : \E h \in {<<>>, History1} : HistoryDone(i, h) /\ UNCHANGED pvars
  \/ \E i \in EffectRuns : \E ok \in BOOLEAN : CreateDone(i, ok) /\ UNCHANGED pvars
  \/ Render /\ UNCHANGED pvars
  \/ \E t \in Inputs : SetNewMessage(t) /\ UNCHANGED pvars
  \/ HandleKeyDown /\ UNCHANGED pvars
  \/ ClickSend /\ UNCHANGED pvars
  \/ \E i \in DOMAIN streams : QueryFail(i) /\ UNCHANGED pvars
  \/ \E i \in DOMAIN streams : \E hdr \in {Null, AssignedId} :
       \E body \in SeqsUpTo(env.records, MaxEvents) : \E ending \in BodyEndings :
         QueryOk(i, hdr, body, ending) /\ UNCHANGED pvars
  \/ \E i \in DOMAIN streams : \E n \in {ChunkLen, Len(streams[i].rest)} :
       Read(i, n) /\ UNCHANGED pvars
  \/ \E i \in DOMAIN streams : ReadDone(i) /\ UNCHANGED pvars
  \/ \E i \in DOMAIN streams : ReadFail(i) /\ UNCHANGED pvars
  \/ \E i \in DOMAIN streams : Consume(i) /\ UNCHANGED pvars
  \/ \E i \in DOMAIN streams : Finish(i) /\ UNCHANGED pvars

Spec ==
  Init /\ [][Next]_vars

\* A step of the query in progress: the response arrives or fails, a read
\* resolves or rejects, the loop takes the next event or ends.
StreamStep ==
  \E i \in DOMAIN streams :
    \/ QueryFail(i)
    \/ \E hdr \in {Null, AssignedId} : \E body \in SeqsUpTo(env.records, MaxEvents) :
         \E ending \in BodyEndings : QueryOk(i, hdr, body, ending)
    \/ ReadFail(i)
    \/ Consume(i)
    \/ Finish(i)
    \/ \E n \in {ChunkLen, Len(streams[i].rest)} : Read(i, n)
    \/ ReadDone(i)

\* The application with a byte source that ends or fails in the end, and an
\* event loop that runs the jobs queued.
InitLive ==
  /\ \E saved \in {Null, SavedId} :
       AStart(Env({BodyAx, BodyNull}, FewEvents, {Null}, BodyEndings, {1}, {Null, SavedId}),
              saved)
  /\ PIdle

SpecLive ==
  InitLive /\ [][Next]_vars /\ WF_vars(StreamStep /\ UNCHANGED pvars)

PNext ==
  \/ \E n \in 1..Len(ptext) : PRead(n) /\ UNCHANGED avars
  \/ PDone /\ UNCHANGED avars

\* The parser machine, beside an application that is not mounted.
InitParse ==
  /\ PInit
  /\ AStart(Env({BodyAx}, 0, {Null}, {BlankLine}, {1}, {SavedId}), SavedId)

SpecParse ==
  InitParse /\ [][PNext]_vars

\* C1: however the body is cut into chunks, the events yielded by the end of
\* the stream are the events yielded when the body arrives as one chunk.
ChunkInvariance ==
  ppc = "done" => pout = OneShot(pvariant, ptext)

ChunkInvarianceCut ==
  /\ ppc = "done"
  /\ pcut.line
  /\ pcut.sep
  /\ Len(pout) = 2

(***************************************************************************)
(* Turns: the chunk ChatMessages builds for the user message of a stream.  *)
(***************************************************************************)
UserCount(msgs, n) ==
  Cardinality({j \in 1..n : msgs[j].role = "user"})

\* The user message of stream i is in the list, where submitNewMessage put it.
Intact(i) ==
  streams[i].at > 0

TurnOf(msgs, at) ==
  ChatMessages(msgs)[UserCount(msgs, at)]

Active ==
  {i \in DOMAIN streams : streams[i].st # "closed"}

IsObject(event) ==
  event.kind = "object"

IsUpdate(event) ==
  IsObject(event) /\ Get(event, KeySection) = SessionUpdate
    /\ Truthy(Get(event, KeySessionId))

IsFinalRecord(event) ==
  IsObject(event) /\ Get(event, KeySection) \in {Summary, Answer}
    /\ Get(event, KeyText) # Done

\* a record with a section name that is no final answer, no reassignment and
\* no DONE marker
IsReasoning(event) ==
  /\ IsObject(event)
  /\ Get(event, KeySection) \notin {Undefined, Null, Summary, Answer, SessionUpdate}
  /\ Get(event, KeyText) \notin {Undefined, Null, Done}

\* C2: in no Turn does the list of reasoning sections hold two adjacent entries
\* with the same section name (a name that is neither null nor undefined).
NoAdjacentSameSection ==
  \A c \in DOMAIN ChatMessages(messages) :
    LET items == ChatMessages(messages)[c].nonSummaryItems
    IN  \A j \in 1..(Len(items) - 1) :
          items[j].section \in {Null, Undefined} \/ items[j].section # items[j + 1].section

\* C3: at most one stream is open at a time, and loading is true while it is.
OneStreamAtATime ==
  /\ Cardinality(Active) <= 1
  /\ Active # {} => loading

\* a second stream is being consumed after the first one closed, and the user
\* has typed the next question meanwhile
OneStreamSecondTurn ==
  /\ Len(streams) = 2
  /\ streams[1].st = "closed"
  /\ streams[2].st = "open"
  /\ streams[2].seen # <<>>
  /\ Trim(newMessage) # <<>>

\* C4: the step that consumes a session-reassignment record sets sessionId and
\* the stored 'chatSessionId' to its id, leaves messages as they are and does
\* not end the stream.
SessionUpdateStep ==
  [][\A i \in DOMAIN streams :
       (/\ streams[i].queue # <<>>
        /\ IsUpdate(Head(streams[i].queue))
        /\ streams'[i].seen # streams[i].seen)
       => /\ sessionId' = Get(Head(streams[i].queue), KeySessionId)
          /\ stored' = Get(Head(streams[i].queue), KeySessionId)
          /\ messages' = messages
          /\ loading' = loading
          /\ streams'[i].st = streams[i].st
          /\ streams'[i].queue = Tail(streams[i].queue)]_vars

\* a reassignment record was consumed after content of the Turn, and a record
\* after it was consumed too
SessionUpdateMidStream ==
  \E i \in DOMAIN streams :
    /\ Len(streams[i].seen) = 3
    /\ IsReasoning(streams[i].seen[1])
    /\ IsUpdate(streams[i].seen[2])
    /\ IsReasoning(streams[i].seen[3])
    /\ sessionId = AssignedId
    /\ stored = AssignedId
    /\ Len(messages) = streams[i].at + 1

(***************************************************************************)
(* The run-length grouping of a sequence of records by section name,       *)
(* defined on the sequence as a whole.                                     *)
(***************************************************************************)
\* the indices where a group starts
GroupStarts(events) ==
  {j \in DOMAIN events :
     j = 1 \/ Get(events[j], KeySection) # Get(events[j - 1], KeySection)}

\* the last index of the group that starts at j
GroupEnd(events, j) ==
  LET later == {k \in GroupStarts(events) : k > j}
  IN  IF later = {} THEN Len(events)
      ELSE (CHOOSE k \in later : \A m \in later : k <= m) - 1

RECURSIVE TextOfRange(_, _, _)
TextOfRange(events, from, to) ==
  IF from > to THEN <<>>
  ELSE Get(events[from], KeyText) \o TextOfRange(events, from + 1, to)

RECURSIVE GroupsFrom(_, _)
GroupsFrom(events, j) ==
  IF j > Len(events) THEN <<>>
  ELSE << [section |-> Get(events[j], KeySection),
           codeBlock |-> CodeBlock(Get(events[j], KeySection),
                                   TextOfRange(events, j, GroupEnd(events, j)))] >>
         \o GroupsFrom(events, GroupEnd(events, j) + 1)

RunLengthGroups(events) ==
  GroupsFrom(events, 1)

\* C5: while the records consumed for a Turn are all reasoning records, the
\* reasoning sections of the Turn are the run-length grouping of these records
\* by section name, each with the texts of its records in arrival order, and
\* the Turn has no final-answer text.
MergeRule ==
  \A i \in DOMAIN streams :
    (/\ Intact(i)
     /\ streams[i].outcome \in {"", "ended"}
     /\ \A j \in DOMAIN streams[i].seen : IsReasoning(streams[i].seen[j]))
    => /\ TurnOf(messages, streams[i].at).nonSummaryItems
            = RunLengthGroups(streams[i].seen)
       /\ TurnOf(messages, streams[i].at).summaryText = <<>>

\* A:x, A:y, B:z were consumed: the Turn shows [A:'xy', B:'z']
MergeRuleExample ==
  \E i \in DOMAIN streams :
    /\ Intact(i)
    /\ streams[i].outcome = "ended"
    /\ Len(streams[i].seen) = 3
    /\ TurnOf(messages, streams[i].at).nonSummaryItems
         = << [section |-> <<"A">>, codeBlock |-> CodeBlock(<<"A">>, <<"x", "y">>)],
              [section |-> <<"B">>, codeBlock |-> CodeBlock(<<"B">>, <<"z">>)] >>

RecordPayload(rec) ==
  Join(DataParts([k \in DOMAIN rec |-> Trim(Decode(rec[k], FALSE).text)]), NL)

HasJsonPayload(rec) ==
  /\ DataParts([k \in DOMAIN rec |-> Trim(Decode(rec[k], FALSE).text)]) # <<>>
  /\ JSONParse(RecordPayload(rec)).ok

\* C7: of two consecutive records with the same raw payload string, the
\* parseSSEStream of api.js yields one event only.
DedupConsecutive ==
  (/\ ppc = "done"
   /\ pvariant = "api"
   /\ Len(precs) = 2
   /\ HasJsonPayload(precs[1])
   /\ RecordPayload(precs[1]) = RecordPayload(precs[2]))
  => Len(pout) = 1

MalformedThenValid ==
  \A i \in DOMAIN streams :
    \A j, k \in DOMAIN streams[i].body :
      (/\ j < k
       /\ streams[i].body[j] = BodyBad
       /\ streams[i].body[k] = BodyAx
       /\ \A m \in DOMAIN streams[i].body : streams[i].body[m] # BodyNull)
      => LET seen == streams[i].seen
             items == TurnOf(messages, streams[i].at).nonSummaryItems
         IN  /\ streams[i].outcome # "threw"
             /\ streams[i].outcome = "ended"
                  => /\ Len(seen) = Len(streams[i].body)
                     /\ seen[j].kind = "string"
                     /\ IsObject(seen[k])
                     /\ Get(seen[k], KeySection) = <<"A">>
                     /\ Get(seen[k], KeyText) = <<"x">>
             /\ (Len(seen) >= k /\ Intact(i) /\ streams[i].outcome # "transport")
                  => /\ \E n \in DOMAIN items : items[n].section = <<"A">>
                     /\ \A n \in DOMAIN items :
                          items[n].codeBlock # CodeBlock(Undefined, ErrorText)

\* the body 'not-json', A:x was consumed to its end
MalformedThenValidEnded ==
  \E i \in DOMAIN streams :
    /\ streams[i].body = <<BodyBad, BodyAx>>
    /\ streams[i].outcome = "ended"
    /\ Intact(i)
    /\ Len(TurnOf(messages, streams[i].at).nonSummaryItems) = 2
    /\ TurnOf(messages, streams[i].at).nonSummaryItems[2].section = <<"A">>

\* C10: the step in which a query fails in transport appends the error marker
\* to the messages and changes none of them.
TransportFailureStep ==
  [][\A i \in DOMAIN streams :
       (streams[i].outcome = "" /\ streams'[i].outcome = "transport")
       => /\ messages' = Append(messages, ErrorMarker)
          /\ loading' = FALSE]_vars

\* a read failed after a section of the Turn was shown: user message, section,
\* marker
TransportFailureAfterEvents ==
  \E i \in DOMAIN streams :
    /\ streams[i].outcome = "transport"
    /\ Len(streams[i].seen) = 1
    /\ Intact(i)
    /\ Len(messages) = streams[i].at + 2
    /\ messages[streams[i].at] = UserMsg(Question)
    /\ messages[streams[i].at + 1] = AssistantMsg(<<"A">>, <<"x">>)
    /\ messages[streams[i].at + 2] = ErrorMarker

\* the user can submit: text in the box, nothing loading, a render committed
CanSubmit ==
  /\ ~Busy
  /\ ~view.loadingHistory
  /\ ~view.loading
  /\ Trim(view.newMessage) # <<>>
  /\ Len(streams) < MaxTurns

\* C11: once a run of initializeChat that found no stored id has finished,
\* sessionId is not null, also when the create-session request failed; and with
\* 'default-chat' as rendered session id, Enter on a non-empty text starts a
\* query.
BootstrapNeverBlocks ==
  /\ (\E i \in EffectRuns : init[i].pc = "done" /\ init[i].saved = Null)
       => Truthy(sessionId)
  /\ (CanSubmit /\ view.sessionId = DefaultChat)
       => ENABLED (HandleKeyDown /\ Len(streams') = Len(streams) + 1)

\* the create-session request failed, and a query was accepted under
\* 'default-chat'
BootstrapFallbackQuery ==
  /\ sessionId = DefaultChat
  /\ stored = DefaultChat
  /\ streams # <<>>
  /\ streams[1].chatId = DefaultChat
  /\ streams[1].seen # <<>>

\* the runs of initializeChat that issued a create-session request
CreateRuns ==
  {i \in EffectRuns : init[i].pc \in {"create", "done"} /\ init[i].saved = Null}

\* C12: startup issues at most one create-session request.
StartupOneCreate ==
  Cardinality(CreateRuns) <= 1

\* the reassignment records consumed in stream i
UpdatesIn(i) ==
  {k \in DOMAIN streams[i].seen : IsUpdate(streams[i].seen[k])}

Max(S) ==
  CHOOSE x \in S : \A y \in S : y <= x

\* C13: a query accepted after a reassignment record was processed is sent
\* with the id of the last such record.
ReassignedIdUsed ==
  \A j \in DOMAIN streams :
    LET earlier == {i \in 1..(j - 1) : UpdatesIn(i) # {}}
    IN  earlier # {}
          => streams[j].chatId
               = Get(streams[Max(earlier)].seen[Max(UpdatesIn(Max(earlier)))], KeySessionId)

IsDoneRecord(event) ==
  IsObject(event) /\ ~IsUpdate(event) /\ Get(event, KeyText) = Done

\* C14: the step that consumes a record whose text is 'DONE' changes neither
\* messages nor sessionId nor the stored id, and does not end the stream.
DoneStep ==
  [][\A i \in DOMAIN streams :
       (/\ streams[i].queue # <<>>
        /\ IsDoneRecord(Head(streams[i].queue))
        /\ streams'[i].seen # streams[i].seen)
       => /\ messages' = messages
          /\ sessionId' = sessionId
          /\ stored' = stored
          /\ loading' = loading
          /\ streams'[i].st = streams[i].st
          /\ streams'[i].queue = Tail(streams[i].queue)]_vars

\* a record after the DONE marker was accumulated
DoneThenRecord ==
  \E i \in DOMAIN streams :
    /\ Len(streams[i].seen) = 2
    /\ IsDoneRecord(streams[i].seen[1])
    /\ IsReasoning(streams[i].seen[2])
    /\ Intact(i)
    /\ Len(messages) = streams[i].at + 1
    /\ messages[streams[i].at + 1] = AssistantMsg(<<"A">>, <<"x">>)

\* C15: the events of a body are the same whether or not a blank line follows
\* its last record.
FlushSameRules ==
  ppc = "done" => pout = OneShot(pvariant, WireOf(precs, BlankLine))

\* C16: the loop body throws on no event of a delivered body: no stream ends
\* in the catch block because of an event.
NoThrowOnEvents ==
  \A i \in DOMAIN streams : streams[i].outcome # "threw"

\* C17: loading is true only while a stream is not closed, and whenever
\* loading is true it is false again later.
UnlockEventually ==
  /\ [](loading => Active # {})
  /\ loading ~> ~loading

\* input is unlocked after a query that ended in the catch block on an event
\* and after one that failed in transport
UnlockedAfterFailures ==
  /\ ~loading
  /\ \E i \in DOMAIN streams : streams[i].outcome = "threw"
  /\ \E i \in DOMAIN streams : streams[i].outcome = "transport"

\* C18: a session id that is not null is the id stored under 'chatSessionId'.
SessionIdPersisted ==
  Truthy(sessionId) => sessionId = stored

\* both runs of initializeChat created a session, and a reassignment record
\* was consumed
SessionIdPersistedTwoRuns ==
  /\ \A i \in EffectRuns : init[i].pc = "done" /\ init[i].saved = Null
  /\ \E i \in DOMAIN streams : UpdatesIn(i) # {}
  /\ Truthy(sessionId)
  /\ sessionId = stored

\* C19: the user message of every accepted query stays in the messages list,
\* where submitNewMessage appended it: no history replaces the list after a
\* query was accepted.
HistoryBeforeQueries ==
  \A i \in DOMAIN streams :
    /\ Intact(i)
    /\ streams[i].at <= Len(messages)
    /\ messages[streams[i].at] = UserMsg(Question)

=============================================================================
